---------------------------- MODULE Spec2Model ----------------------------
(***************************************************************************)
(* A model of tools/visualize_csv.py (als-dimmer): one run of the script,  *)
(* from argument parsing to the summary statistics.                        *)
(*                                                                         *)
(* Strings the script inspects character by character (paths, extensions,  *)
(* formats) are sequences of one-character strings.  An optional value     *)
(* (Python's None) is the empty tuple, a present value v is <<v>>.          *)
(* Of the nine CSV columns the model keeps the three the zone panel and    *)
(* the zone/duration statistics read: timestamp, zone and zone_changed.    *)
(***************************************************************************)
EXTENDS Integers, Sequences, FiniteSets, TLC

\* F applied to the value of v.  TLC evaluates an operator's argument and a
\* LET definition each time it is used; v is evaluated once here.
With(v, F(_)) == CHOOSE r \in {F(x) : x \in {v}} : TRUE

None == <<>>
Some(v) == <<v>>
IsNone(o) == o = <<>>
Get(o) == o[1]

\* ------------------------------------------------------------------ bounds
\* Longest table of the data-centred initial states.
MaxRows == 3
\* Timestamps are drawn from 0..MaxTime.
MaxTime == 1

\* --------------------------------------------------------- program constants
\* add_argument('--dpi', default=150)
DefaultDpi == 150

PNG == <<"p", "n", "g">>
JPG == <<"j", "p", "g">>
JPEG == <<"j", "p", "e", "g">>
PDF == <<"p", "d", "f">>
SVG == <<"s", "v", "g">>
DotPng == <<".", "p", "n", "g">>

\* choices=['png', 'jpg', 'jpeg', 'pdf', 'svg'] of --format
FormatChoices == {PNG, JPG, JPEG, PDF, SVG}
\* ext in ['jpg', 'jpeg', 'png', 'pdf', 'svg']
KnownExtensions == {JPG, JPEG, PNG, PDF, SVG}

\* ------------------------------------------------------------ str methods
UpperCase ==
    <<"A", "B", "C", "D", "E", "F", "G", "H", "I", "J", "K", "L", "M",
      "N", "O", "P", "Q", "R", "S", "T", "U", "V", "W", "X", "Y", "Z">>
LowerCase ==
    <<"a", "b", "c", "d", "e", "f", "g", "h", "i", "j", "k", "l", "m",
      "n", "o", "p", "q", "r", "s", "t", "u", "v", "w", "x", "y", "z">>

LowerChar(c) ==
    IF \E i \in 1..Len(UpperCase) : UpperCase[i] = c
    THEN LowerCase[CHOOSE i \in 1..Len(UpperCase) : UpperCase[i] = c]
    ELSE c

\* str.lower()
Lower(s) == With(s, LAMBDA v : [i \in 1..Len(v) |-> With(v[i], LowerChar)])

\* str.lstrip('.')
RECURSIVE LStripDots(_)
LStripDots(s) ==
    IF s # <<>> /\ Head(s) = "." THEN LStripDots(Tail(s)) ELSE s

\* str.endswith(t)
EndsWith(s, t) ==
    /\ Len(t) <= Len(s)
    /\ SubSeq(s, Len(s) - Len(t) + 1, Len(s)) = t

\* str.rfind('.') as a 1-based index, 0 when there is none (Python: -1).
RFindDot(s) ==
    IF \E i \in 1..Len(s) : s[i] = "."
    THEN CHOOSE i \in 1..Len(s) :
             s[i] = "." /\ \A j \in (i + 1)..Len(s) : s[j] # "."
    ELSE 0

\* ------------------------------------------------------------ pathlib.Path
\* The components of a POSIX path: split at "/", empty and "." components
\* dropped (PurePosixPath's parsing).
RECURSIVE SplitParts(_, _, _)
SplitParts(p, cur, acc) ==
    LET flush == IF cur = <<>> \/ cur = <<".">> THEN acc ELSE Append(acc, cur)
    IN  IF p = <<>> THEN flush
        ELSE IF Head(p) = "/" THEN SplitParts(Tail(p), <<>>, flush)
        ELSE SplitParts(Tail(p), Append(cur, Head(p)), acc)

Parts(p) == SplitParts(p, <<>>, <<>>)
Root(p) == IF p # <<>> /\ Head(p) = "/" THEN <<"/">> ELSE <<>>

\* Path.name: the final component, empty for "." and "/".
Name(p) ==
    With(Parts(p), LAMBDA parts : IF parts = <<>> THEN <<>> ELSE parts[Len(parts)])

RECURSIVE JoinParts(_)
JoinParts(parts) ==
    IF parts = <<>> THEN <<>>
    ELSE IF Len(parts) = 1 THEN parts[1]
    ELSE parts[1] \o <<"/">> \o JoinParts(Tail(parts))

\* str(Path(root, parts))
PathStr(root, parts) ==
    IF root = <<>> /\ parts = <<>> THEN <<".">> ELSE root \o JoinParts(parts)

\* Path.suffix: the final component from its last dot on, when that dot is
\* neither its first nor its last character.
Suffix(p) ==
    With(Name(p), LAMBDA name :
        With(RFindDot(name), LAMBDA i :
            IF 1 < i /\ i < Len(name) THEN SubSeq(name, i, Len(name)) ELSE <<>>))

\* Path.with_suffix(suffix), for a path with a name (it raises ValueError
\* on an empty name).
WithSuffix(p, suffix) ==
    With(Parts(p), LAMBDA parts :
        With(Len(Name(p)) - Len(Suffix(p)), LAMBDA n :
            With(SubSeq(parts, 1, Len(parts) - 1)
                     \o <<SubSeq(parts[Len(parts)], 1, n) \o suffix>>,
                 LAMBDA renamed : PathStr(Root(p), renamed))))

\* -------------------------------------------------------- parse_arguments
\* "Set default output path if not specified".
DefaultOutput(a) ==
    IF IsNone(a.output) THEN WithSuffix(a.input, DotPng) ELSE Get(a.output)

\* InferFormat comparing the extension as written, without lower().
InferFormatCaseSensitive(output) ==
    With(LStripDots(Suffix(output)), LAMBDA ext :
        IF ext \in KnownExtensions
        THEN [output |-> output, format |-> IF ext = JPG THEN JPEG ELSE ext]
        ELSE [output |-> IF EndsWith(output, DotPng) THEN output
                         ELSE output \o DotPng,
              format |-> PNG])

\* "Auto-detect format from output extension": the format and the output
\* path inferred from an output path when --format is absent.
InferFormat(output) ==
    With(Lower(LStripDots(Suffix(output))), LAMBDA ext :
        IF ext \in KnownExtensions
        THEN [output |-> output, format |-> IF ext = JPG THEN JPEG ELSE ext]
        ELSE [output |-> IF EndsWith(output, DotPng) THEN output
                         ELSE output \o DotPng,
              format |-> PNG])

\* ResolveArgs inferring from the extension whether or not --format is given.
ResolveArgsAlwaysInfer(a) ==
    With(DefaultOutput(a), LAMBDA output :
        With(InferFormat(output), LAMBDA inferred :
            [input |-> a.input,
             output |-> inferred.output,
             format |-> inferred.format,
             dpi |-> a.dpi,
             no_show |-> a.no_show]))

\* The namespace parse_arguments returns, given the one argparse built.
ResolveArgs(a) ==
    With(DefaultOutput(a), LAMBDA output :
        With(InferFormat(output), LAMBDA inferred :
            [input |-> a.input,
             output |-> IF IsNone(a.format) THEN inferred.output ELSE output,
             format |-> IF IsNone(a.format) THEN inferred.format
                        ELSE Get(a.format),
             dpi |-> a.dpi,
             no_show |-> a.no_show]))

\* with_suffix raises ValueError when --output is absent and the input path
\* has no final component.
DefaultOutputRaises(a) == IsNone(a.output) /\ Name(a.input) = <<>>

\* ------------------------------------------------------------ the table
\* zone_colors, and zone_colors.get(zone, 'black')
ZoneColor(zone) ==
    CASE zone = "night" -> "darkblue"
      [] zone = "indoor" -> "yellow"
      [] zone = "outdoor" -> "orange"
      [] zone = "simple" -> "gray"
      [] zone = "manual" -> "purple"
      [] OTHER -> "black"

Column(rows, c) == [i \in 1..Len(rows) |-> rows[i][c]]

\* The distinct values in the order of last appearance.
RECURSIVE UniqueKeepLast(_)
UniqueKeepLast(s) ==
    IF s = <<>> THEN <<>>
    ELSE IF \E i \in 2..Len(s) : s[i] = Head(s)
         THEN UniqueKeepLast(Tail(s))
         ELSE <<Head(s)>> \o UniqueKeepLast(Tail(s))

\* Series.unique(): the distinct values in the order of first appearance.
RECURSIVE UniqueFrom(_, _)
UniqueFrom(s, seen) ==
    IF s = <<>> THEN seen
    ELSE IF \E i \in 1..Len(seen) : seen[i] = Head(s)
         THEN UniqueFrom(Tail(s), seen)
         ELSE UniqueFrom(Tail(s), Append(seen, Head(s)))

Unique(s) == UniqueFrom(s, <<>>)

\* Series.max() of a non-empty column.
RECURSIVE SeriesMax(_)
SeriesMax(s) ==
    IF Len(s) = 1 THEN s[1]
    ELSE LET m == SeriesMax(Tail(s)) IN IF Head(s) > m THEN Head(s) ELSE m

\* Series.sum()
RECURSIVE SeriesSum(_)
SeriesSum(s) == IF s = <<>> THEN 0 ELSE Head(s) + SeriesSum(Tail(s))

\* df[mask]['timestamp'] for mask = (df[c] == v)
TimestampsWhere(rows, c, v) ==
    LET Keep(r) == r[c] = v
    IN  Column(SelectSeq(rows, Keep), "timestamp")

\* Plot 4: one scatter per distinct zone, and one axvline per row of
\* df[df['zone_changed'] == 1].
ZonePanel(rows) ==
    LET zones == Unique(Column(rows, "zone"))
    IN  [scatters |-> [i \in 1..Len(zones) |->
                          [label |-> zones[i],
                           x |-> TimestampsWhere(rows, "zone", zones[i]),
                           color |-> ZoneColor(zones[i])]],
         vlines |-> TimestampsWhere(rows, "zone_changed", 1)]

\* The printed summary: len(df), max timestamp, max timestamp / len(df)
\* (kept as numerator and denominator), the zones visited, the zone changes.
SummaryOf(rows) ==
    [iterations |-> Len(rows),
     duration |-> SeriesMax(Column(rows, "timestamp")),
     interval |-> [num |-> SeriesMax(Column(rows, "timestamp")),
                   den |-> Len(rows)],
     zones |-> Unique(Column(rows, "zone")),
     zone_changes |-> SeriesSum(Column(rows, "zone_changed"))]

\* ------------------------------------------------------------ the inputs
\* --input values: a.csv, ./a.csv, /t/a.b.csv, d.x/log, .log and "."
InputPaths ==
    { <<"a", ".", "c", "s", "v">>,
      <<".", "/", "a", ".", "c", "s", "v">>,
      <<"/", "t", "/", "a", ".", "b", ".", "c", "s", "v">>,
      <<"d", ".", "x", "/", "l", "o", "g">>,
      <<".", "l", "o", "g">>,
      <<".">> }

\* --output values: x.jpg, x.JPG, x.jpeg, x.png, x.Png, x.pdf, x.svg, x.xyz,
\* x, d.png/x, .png, x., o.tar.PDF and the empty string
OutputPaths ==
    { <<"x", ".", "j", "p", "g">>,
      <<"x", ".", "J", "P", "G">>,
      <<"x", ".", "j", "p", "e", "g">>,
      <<"x", ".", "p", "n", "g">>,
      <<"x", ".", "P", "n", "g">>,
      <<"x", ".", "p", "d", "f">>,
      <<"x", ".", "s", "v", "g">>,
      <<"x", ".", "x", "y", "z">>,
      <<"x">>,
      <<"d", ".", "p", "n", "g", "/", "x">>,
      <<".", "p", "n", "g">>,
      <<"x", ".">>,
      <<"o", ".", "t", "a", "r", ".", "P", "D", "F">>,
      <<>> }

Optional(S) == {None} \cup {Some(v) : v \in S}

\* A log record: the columns the zone panel and the summary read.  The
\* script checks no value: a zone outside its colour map ("cave") and a
\* zone_changed other than 0 and 1 are rows it reads like any other.
Zones == {"night", "outdoor", "cave"}
Flags == {0, 1, 2}
Rows(zones, flags) == [timestamp : 0..MaxTime, zone : zones, zone_changed : flags]

RowSeqs(rows, n) == UNION {[1..k -> rows] : k \in 0..n}

OneRow == [timestamp |-> 1, zone |-> "night", zone_changed |-> 1]

\* What the input path names, and what pd.read_csv makes of it: nothing (it
\* raises), or a table that has the nine columns or lacks one.
FewFiles ==
    {[kind |-> "missing", parsed |-> None], [kind |-> "dir", parsed |-> None]}
        \cup [kind : {"file"},
              parsed : Optional([complete : BOOLEAN, rows : {<<>>, <<OneRow>>}])]

\* Complete tables of up to MaxRows rows.  The zone column and the
\* zone_changed column are read by separate statements, so the tables vary
\* one of them at a time, each together with the timestamps.
ManyFiles ==
    [kind : {"file"},
     parsed : {Some(t) : t \in
                  [complete : {TRUE},
                   rows : RowSeqs(Rows(Zones, {0}), MaxRows)
                            \cup RowSeqs(Rows({"night"}, Flags), MaxRows)]}]

VARIABLES
    argv,        \* the namespace argparse built from the command line
    file,        \* what the input path names
    writable,    \* whether plt.savefig can write the output
    pc,          \* the statement the script is at
    args,        \* the namespace parse_arguments returned
    df,          \* the loaded table
    fig,         \* the composed figure (its zone panel)
    written,     \* the file plt.savefig wrote
    viewer,      \* the interactive window: "never", "open", "closed"
    summary,     \* the printed summary statistics
    out,         \* the messages printed so far
    exitStatus,  \* the process's exit status
    reads,       \* calls of pd.read_csv
    saves        \* calls of plt.savefig

vars == <<argv, file, writable, pc, args, df, fig, written, viewer, summary,
          out, exitStatus, reads, saves>>

Start ==
    /\ pc = "parse"
    /\ args = None
    /\ df = None
    /\ fig = None
    /\ written = None
    /\ viewer = "never"
    /\ summary = None
    /\ out = <<>>
    /\ exitStatus = None
    /\ reads = 0
    /\ saves = 0

\* Runs over every command line, on a few files.
InitArgs ==
    /\ argv \in [input : InputPaths, output : Optional(OutputPaths),
                 format : Optional(FormatChoices), dpi : {DefaultDpi},
                 no_show : BOOLEAN]
    /\ file \in FewFiles
    /\ Name(argv.input) = <<>> => file.kind = "dir"
    /\ writable \in BOOLEAN
    /\ Start

\* Runs over every table, on two command lines.
InitData ==
    /\ argv \in
         {[input |-> <<"a", ".", "c", "s", "v">>, output |-> None,
           format |-> None, dpi |-> DefaultDpi, no_show |-> FALSE],
          [input |-> <<"a", ".", "c", "s", "v">>,
           output |-> Some(<<"x", ".", "j", "p", "g">>),
           format |-> Some(PDF), dpi |-> 2 * DefaultDpi, no_show |-> TRUE]}
    /\ file \in ManyFiles
    /\ writable = TRUE
    /\ Start

Init == InitArgs \/ InitData

Exit(status, message) ==
    /\ pc' = "exited"
    /\ exitStatus' = Some(status)
    /\ out' = out \o message

\* parse_arguments without the existence check.
ParseMissingInputAccepted ==
    /\ pc = "parse"
    /\ file.kind = "missing"
    /\ args' = Some(ResolveArgs(argv))
    /\ pc' = "load"
    /\ UNCHANGED <<argv, file, writable, df, fig, written, viewer, summary,
                   out, exitStatus, reads, saves>>

\* parse_arguments: parser.error when the input path does not exist.
ParseUsageError ==
    /\ pc = "parse"
    /\ file.kind = "missing"
    /\ Exit(2, <<"usage: input file not found">>)
    /\ UNCHANGED <<argv, file, writable, args, df, fig, written, viewer,
                   summary, reads, saves>>

\* parse_arguments: with_suffix raises, and nothing catches it.
ParseValueError ==
    /\ pc = "parse"
    /\ file.kind # "missing"
    /\ DefaultOutputRaises(argv)
    /\ Exit(1, <<"traceback">>)
    /\ UNCHANGED <<argv, file, writable, args, df, fig, written, viewer,
                   summary, reads, saves>>

\* parse_arguments returns.
ParseArguments ==
    /\ pc = "parse"
    /\ file.kind # "missing"
    /\ ~DefaultOutputRaises(argv)
    /\ args' = Some(ResolveArgs(argv))
    /\ pc' = "load"
    /\ UNCHANGED <<argv, file, writable, df, fig, written, viewer, summary,
                   out, exitStatus, reads, saves>>

\* pd.read_csv raises: "Error loading CSV", sys.exit(1).
LoadError ==
    /\ pc = "load"
    /\ IsNone(file.parsed)
    /\ reads' = reads + 1
    /\ Exit(1, <<"Loading data from", "Error loading CSV">>)
    /\ UNCHANGED <<argv, file, writable, args, df, fig, written, viewer,
                   summary, saves>>

\* pd.read_csv returns the table.
LoadCsv ==
    /\ pc = "load"
    /\ ~IsNone(file.parsed)
    /\ reads' = reads + 1
    /\ df' = file.parsed
    /\ out' = Append(out, "Loading data from")
    /\ pc' = "check"
    /\ UNCHANGED <<argv, file, writable, args, fig, written, viewer, summary,
                   exitStatus, saves>>

\* The empty table reported as a load failure.
EmptyDatasetAsLoadError ==
    /\ pc = "check"
    /\ Len(Get(df).rows) = 0
    /\ Exit(1, <<"Error loading CSV">>)
    /\ UNCHANGED <<argv, file, writable, args, df, fig, written, viewer,
                   summary, reads, saves>>

\* len(df) == 0: "Error: CSV file is empty", sys.exit(1).
EmptyDataset ==
    /\ pc = "check"
    /\ Len(Get(df).rows) = 0
    /\ Exit(1, <<"Error: CSV file is empty">>)
    /\ UNCHANGED <<argv, file, writable, args, df, fig, written, viewer,
                   summary, reads, saves>>

\* The script going on whatever len(df) is.
CheckSkipped ==
    /\ pc = "check"
    /\ out' = Append(out, "Loaded data points")
    /\ pc' = "compose"
    /\ UNCHANGED <<argv, file, writable, args, df, fig, written, viewer,
                   summary, exitStatus, reads, saves>>

\* len(df) > 0: "Loaded n data points".
CheckNonEmpty ==
    /\ pc = "check"
    /\ Len(Get(df).rows) # 0
    /\ out' = Append(out, "Loaded data points")
    /\ pc' = "compose"
    /\ UNCHANGED <<argv, file, writable, args, df, fig, written, viewer,
                   summary, exitStatus, reads, saves>>

\* A column the charts read is missing: KeyError, and nothing catches it.
ComposeKeyError ==
    /\ pc = "compose"
    /\ ~Get(df).complete
    /\ Exit(1, <<"traceback">>)
    /\ UNCHANGED <<argv, file, writable, args, df, fig, written, viewer,
                   summary, reads, saves>>

\* The four panels are drawn.
ComposeFigure ==
    /\ pc = "compose"
    /\ Get(df).complete
    /\ fig' = Some(ZonePanel(Get(df).rows))
    /\ pc' = "save"
    /\ UNCHANGED <<argv, file, writable, args, df, written, viewer, summary,
                   out, exitStatus, reads, saves>>

\* The save failure reported without sys.exit(1).
SaveErrorContinues ==
    /\ pc = "save"
    /\ ~writable
    /\ saves' = saves + 1
    /\ out' = out \o <<"Saving visualization to", "Error saving plot">>
    /\ pc' = "display"
    /\ UNCHANGED <<argv, file, writable, args, df, fig, written, viewer,
                   summary, exitStatus, reads>>

\* plt.savefig raises: "Error saving plot", sys.exit(1).
SaveError ==
    /\ pc = "save"
    /\ ~writable
    /\ saves' = saves + 1
    /\ Exit(1, <<"Saving visualization to", "Error saving plot">>)
    /\ UNCHANGED <<argv, file, writable, args, df, fig, written, viewer,
                   summary, reads>>

\* The figure saved at the output path as it was before the format was
\* inferred.
SaveFigureUnresolved ==
    /\ pc = "save"
    /\ writable
    /\ saves' = saves + 1
    /\ written' = Some([path |-> DefaultOutput(argv), format |-> Get(args).format,
                        dpi |-> Get(args).dpi, figure |-> Get(fig)])
    /\ out' = out \o <<"Saving visualization to", "Saved successfully">>
    /\ pc' = "display"
    /\ UNCHANGED <<argv, file, writable, args, df, fig, viewer, summary,
                   exitStatus, reads>>

\* plt.savefig(args.output, format=args.format, dpi=args.dpi)
SaveFigure ==
    /\ pc = "save"
    /\ writable
    /\ saves' = saves + 1
    /\ written' = Some([path |-> Get(args).output, format |-> Get(args).format,
                        dpi |-> Get(args).dpi, figure |-> Get(fig)])
    /\ out' = out \o <<"Saving visualization to", "Saved successfully">>
    /\ pc' = "display"
    /\ UNCHANGED <<argv, file, writable, args, df, fig, viewer, summary,
                   exitStatus, reads>>

\* plt.show(block=False): the window opens and the script goes on.
ShowFigureNonBlocking ==
    /\ pc = "display"
    /\ ~Get(args).no_show
    /\ viewer' = "open"
    /\ out' = Append(out, "Displaying plot")
    /\ pc' = "summary"
    /\ UNCHANGED <<argv, file, writable, args, df, fig, written, summary,
                   exitStatus, reads, saves>>

\* plt.show() opens the window and blocks.
ShowFigure ==
    /\ pc = "display"
    /\ ~Get(args).no_show
    /\ viewer' = "open"
    /\ out' = Append(out, "Displaying plot")
    /\ pc' = "show"
    /\ UNCHANGED <<argv, file, writable, args, df, fig, written, summary,
                   exitStatus, reads, saves>>

\* --no-show: "Skipping interactive display".
SkipShow ==
    /\ pc = "display"
    /\ Get(args).no_show
    /\ out' = Append(out, "Skipping interactive display")
    /\ pc' = "summary"
    /\ UNCHANGED <<argv, file, writable, args, df, fig, written, viewer,
                   summary, exitStatus, reads, saves>>

\* The user closes the window: plt.show() returns.
CloseViewer ==
    /\ pc = "show"
    /\ viewer = "open"
    /\ viewer' = "closed"
    /\ pc' = "summary"
    /\ UNCHANGED <<argv, file, writable, args, df, fig, written, summary, out,
                   exitStatus, reads, saves>>

\* The summary statistics are printed and the script ends.
PrintSummary ==
    /\ pc = "summary"
    /\ summary' = Some(SummaryOf(Get(df).rows))
    /\ Exit(0, <<"SUMMARY STATISTICS">>)
    /\ UNCHANGED <<argv, file, writable, args, df, fig, written, viewer,
                   reads, saves>>

\* The statements the interpreter runs one after the other.
Step ==
    \/ ParseUsageError
    \/ ParseValueError
    \/ ParseArguments
    \/ LoadError
    \/ LoadCsv
    \/ EmptyDataset
    \/ CheckNonEmpty
    \/ ComposeKeyError
    \/ ComposeFigure
    \/ SaveError
    \/ SaveFigure
    \/ ShowFigure
    \/ SkipShow
    \/ PrintSummary

Next == Step \/ CloseViewer

Spec == Init /\ [][Next]_vars

\* The interpreter keeps running the script, and the window is closed in
\* the end.  Whether a run ends depends on the table only through its
\* being empty or complete, so the runs are those over every command line.
FairSpec ==
    InitArgs /\ [][Next]_vars /\ WF_vars(Step) /\ WF_vars(CloseViewer)

\* ================================================================ claims
Printed(message) == \E i \in 1..Len(out) : out[i] = message

\* The extension of a path, stated on the path's text: what follows the
\* last dot of the final component, when that dot is neither the first nor
\* the last character of the component.
ExtensionDots(p) ==
    {k \in 2..(Len(p) - 1) :
        /\ p[k] = "."
        /\ p[k - 1] # "/"
        /\ \A j \in (k + 1)..Len(p) : p[j] \notin {".", "/"}}

ExtensionOf(p) ==
    IF ExtensionDots(p) = {} THEN <<>>
    ELSE SubSeq(p, (CHOOSE k \in ExtensionDots(p) : TRUE) + 1, Len(p))

WithoutExtension(p) ==
    IF ExtensionDots(p) = {} THEN p
    ELSE SubSeq(p, 1, (CHOOSE k \in ExtensionDots(p) : TRUE) - 1)

\* Two spellings of one path: a leading "./" does not count.
StripCurDir(p) ==
    IF Len(p) >= 2 /\ p[1] = "." /\ p[2] = "/" THEN SubSeq(p, 3, Len(p)) ELSE p

SamePath(p, q) == StripCurDir(p) = StripCurDir(q)

InputAsPng == WithoutExtension(argv.input) \o DotPng

\* C1: with no --format, (1) an absent --output resolves to the input path
\* with its extension replaced by .png, in format png; (2) an output path
\* whose extension is, case-insensitively, one of jpg/jpeg/png/pdf/svg is
\* kept and gives that format in lower case, jpg as jpeg; (3) any other
\* output path gives format png and gets .png appended unless it already
\* ends in .png.
C1_InferredFormatAndOutput ==
    (~IsNone(args) /\ IsNone(argv.format)) =>
        LET got == Get(args)
            given == Get(argv.output)
            ext == Lower(ExtensionOf(given))
        IN  /\ IsNone(argv.output) =>
                /\ got.format = PNG
                /\ SamePath(got.output, InputAsPng)
            /\ (~IsNone(argv.output) /\ ext \in {JPG, JPEG, PNG, PDF, SVG}) =>
                /\ got.output = given
                /\ got.format = IF ext = JPG THEN JPEG ELSE ext
            /\ (~IsNone(argv.output) /\ ext \notin {JPG, JPEG, PNG, PDF, SVG}) =>
                /\ got.format = PNG
                /\ got.output = IF EndsWith(given, DotPng) THEN given
                                ELSE given \o DotPng

\* --output=x.xyz resolved to x.xyz.png in format png.
C1_Witness ==
    /\ ~IsNone(args)
    /\ IsNone(argv.format)
    /\ argv.output = Some(<<"x", ".", "x", "y", "z">>)
    /\ Get(args).output = <<"x", ".", "x", "y", "z", ".", "p", "n", "g">>
    /\ Get(args).format = PNG

\* C2: a run on a missing input path ends with the usage error and does
\* nothing else: no read of the CSV, no figure, no file written, no viewer,
\* no summary.
C2_MissingInputStopsAtUsage ==
    file.kind = "missing" =>
        /\ pc \in {"parse", "exited"}
        /\ pc = "exited" =>
              /\ exitStatus = Some(2)
              /\ out = <<"usage: input file not found">>
        /\ reads = 0
        /\ saves = 0
        /\ IsNone(df)
        /\ IsNone(fig)
        /\ IsNone(written)
        /\ viewer = "never"
        /\ IsNone(summary)

C2_Witness == file.kind = "missing" /\ pc = "exited" /\ exitStatus = Some(2)

\* The input is a CSV that parses, has the nine columns and a row, and the
\* output can be written.
ValidRun ==
    /\ file.kind = "file"
    /\ ~IsNone(file.parsed)
    /\ Get(file.parsed).complete
    /\ Len(Get(file.parsed).rows) >= 1
    /\ writable

ExitedZeroWithOutput ==
    /\ pc = "exited"
    /\ exitStatus = Some(0)
    /\ ~IsNone(args)
    /\ ~IsNone(written)
    /\ Get(written).path = Get(args).output
    /\ Get(written).format = Get(args).format

\* C3: a run on a valid CSV whose save succeeds (and whose viewer, if any,
\* is closed) ends with exit status 0, the file written at the resolved
\* output path in the resolved format.
C3_ValidRunEndsZero == ValidRun ~> ExitedZeroWithOutput

C3_Witness == ValidRun /\ ExitedZeroWithOutput /\ viewer = "closed"

\* C4: each handled failure (CSV load, empty dataset, save) ends the run
\* with exit status 1 and is final: nothing is written after a load failure
\* or an empty dataset, no viewer and no summary follow a save failure, and
\* no step is tried twice.
C4_HandledFailuresExitOne ==
    /\ (pc = "exited" /\ reads = 1 /\ IsNone(df)) => Printed("Error loading CSV")
    /\ (pc = "exited" /\ ~IsNone(df) /\ Get(df).rows = <<>>)
           => Printed("Error: CSV file is empty")
    /\ (pc = "exited" /\ saves = 1 /\ IsNone(written))
           => Printed("Error saving plot")
    /\ (Printed("Error loading CSV") \/ Printed("Error: CSV file is empty")
          \/ Printed("Error saving plot"))
           => /\ pc = "exited"
              /\ exitStatus = Some(1)
              /\ ~ENABLED Next
    /\ (Printed("Error loading CSV") \/ Printed("Error: CSV file is empty"))
           => IsNone(written) /\ saves = 0
    /\ Printed("Error saving plot") => viewer = "never" /\ IsNone(summary)
    /\ reads <= 1
    /\ saves <= 1

C4_Witness ==
    /\ Printed("Error saving plot")
    /\ pc = "exited"
    /\ exitStatus = Some(1)
    /\ saves = 1

ParsedEmpty ==
    /\ file.kind = "file"
    /\ ~IsNone(file.parsed)
    /\ Get(file.parsed).rows = <<>>

\* C5: a CSV that parses to zero rows ends the run with exit status 1 and
\* the empty-dataset message, never the parse-failure message; a parse
\* failure never prints the empty-dataset message.
C5_EmptyDatasetOwnMessage ==
    /\ (ParsedEmpty /\ pc = "exited") =>
          /\ exitStatus = Some(1)
          /\ Printed("Error: CSV file is empty")
    /\ ParsedEmpty => ~Printed("Error loading CSV")
    /\ Printed("Error: CSV file is empty") => ParsedEmpty
    /\ Printed("Error loading CSV") =>
          /\ IsNone(file.parsed)
          /\ ~Printed("Error: CSV file is empty")

C5_Witness ==
    /\ ParsedEmpty
    /\ pc = "exited"
    /\ out = <<"Loading data from", "Error: CSV file is empty">>

\* C6: the viewer is opened exactly when --no-show is absent and the save
\* succeeded; it is opened after the save, and the summary is printed only
\* once it is closed.  With --no-show it is never opened and the summary
\* follows the save.
C6_ViewerIffShowAndSaved ==
    /\ viewer # "never" => ~argv.no_show /\ ~IsNone(written)
    /\ (~argv.no_show /\ ~IsNone(written)) => pc = "display" \/ viewer # "never"
    /\ viewer = "open" => pc = "show" /\ IsNone(summary)
    /\ (~IsNone(summary) /\ ~argv.no_show) => viewer = "closed"
    /\ argv.no_show => viewer = "never"
    /\ (~IsNone(summary) /\ argv.no_show) =>
          EndsWith(out, <<"Saved successfully", "Skipping interactive display",
                          "SUMMARY STATISTICS">>)

C6_Witness == viewer = "closed" /\ ~IsNone(summary) /\ ~argv.no_show

CountWhere(rows, c, v) == Cardinality({i \in 1..Len(rows) : rows[i][c] = v})

\* C7: the reported duration is the largest timestamp, and the reported
\* zone-change count is the number of rows whose zone_changed is 1, which is
\* the number of marker lines of the zone panel.
C7_ZoneChangesCountRows ==
    ~IsNone(summary) =>
        LET rows == Get(file.parsed).rows
            got == Get(summary)
        IN  /\ \A i \in 1..Len(rows) : rows[i].timestamp <= got.duration
            /\ \E i \in 1..Len(rows) : rows[i].timestamp = got.duration
            /\ got.zone_changes = CountWhere(rows, "zone_changed", 1)
            /\ got.zone_changes = Len(Get(fig).vlines)

FirstIndex(s, v) == CHOOSE i \in 1..Len(s) : s[i] = v /\ \A j \in 1..(i - 1) : s[j] # v

InEncounterOrder(listed, column) ==
    /\ \A i, j \in 1..Len(listed) : i # j => listed[i] # listed[j]
    /\ {listed[i] : i \in 1..Len(listed)} = {column[k] : k \in 1..Len(column)}
    /\ \A i, j \in 1..Len(listed) :
           i < j => FirstIndex(column, listed[i]) < FirstIndex(column, listed[j])

\* C8: the zones the summary lists are the distinct values of the zone
\* column, each once, in the order of first occurrence, and they are the
\* groups of the zone panel in the same order.
C8_ZonesInEncounterOrder ==
    /\ ~IsNone(fig) =>
          InEncounterOrder([i \in 1..Len(Get(fig).scatters) |->
                               Get(fig).scatters[i].label],
                           Column(Get(file.parsed).rows, "zone"))
    /\ ~IsNone(summary) =>
          /\ InEncounterOrder(Get(summary).zones,
                              Column(Get(file.parsed).rows, "zone"))
          /\ Len(Get(fig).scatters) = Len(Get(summary).zones)
          /\ \A i \in 1..Len(Get(summary).zones) :
                 Get(fig).scatters[i].label = Get(summary).zones[i]

\* A zone met first, then another, then the first again.
C8_Witness ==
    /\ ~IsNone(summary)
    /\ Column(Get(file.parsed).rows, "zone") = <<"outdoor", "cave", "outdoor">>
    /\ Get(summary).zones = <<"outdoor", "cave">>

\* C9: an explicit --format is kept as given (jpg stays jpg) and the output
\* path is the given --output, or the input path with .png when --output is
\* absent; nothing is appended, and the figure is saved with exactly these.
C9_ExplicitFormatKept ==
    (~IsNone(args) /\ ~IsNone(argv.format)) =>
        /\ Get(args).format = Get(argv.format)
        /\ ~IsNone(argv.output) => Get(args).output = Get(argv.output)
        /\ IsNone(argv.output) => SamePath(Get(args).output, InputAsPng)
        /\ ~IsNone(written) =>
              /\ Get(written).format = Get(argv.format)
              /\ Get(written).path = Get(args).output

\* --format=jpg --output=x saved as x, format jpg.
C9_Witness ==
    /\ argv.format = Some(JPG)
    /\ argv.output = Some(<<"x">>)
    /\ ~IsNone(written)
    /\ Get(written).path = <<"x">>
    /\ Get(written).format = JPG

\* C10: past the empty-dataset check the table is loaded and has a row, so
\* the mean interval is never a division by a row count of zero.
C10_RowsPastEmptyCheck ==
    /\ (pc \in {"compose", "save", "display", "show", "summary"}
          \/ ~IsNone(fig) \/ ~IsNone(written) \/ ~IsNone(summary))
           => ~IsNone(df) /\ Len(Get(df).rows) >= 1
    /\ ~IsNone(summary) =>
          /\ Get(summary).interval.den = Len(Get(df).rows)
          /\ Get(summary).interval.den >= 1

C10_Witness ==
    /\ ~IsNone(summary)
    /\ Get(summary).interval.den = 1
    /\ Get(summary).interval.num = 1

=============================================================================
